---- MODULE Spec2Model ----
(***************************************************************************)
(* Voice-note pipeline of the talk app: the chat screen's                  *)
(* handleTranscription creates a placeholder note and invokes the Convex   *)
(* action processTranscript, which transcribes the audio, asks the model   *)
(* for a decision through the "decide" tool and routes the result into the *)
(* voiceNotes, todos and folders tables.                                   *)
(*                                                                         *)
(* Every await of the action is one step of the model.  A Convex mutation  *)
(* or query runs atomically on the server, so one step executes it whole;  *)
(* it either commits or throws and leaves the tables untouched.            *)
(***************************************************************************)
EXTENDS Integers, Sequences, FiniteSets, TLC

\* number of recordings the chat screen makes in one behaviour
MaxRuns == 2

\* chat-screen instances (one per device); Spec drives the first one only
MaxClients == 2
\* recordings in the runs that look a folder up among duplicates
MaxFolderRuns == 3
\* taps on the todo list
MaxTodoCalls == 2
Clients == 1..MaxClients

\* JavaScript undefined, for string-valued fields
Undefined == "<undefined>"
\* an absent document id (folderId: undefined, find() returning undefined)
NoId == 0

Sentinel == "Processing..."

(***************************************************************************)
(* Inputs the outside world can produce.                                   *)
(***************************************************************************)
ApiKeys == {Undefined, "sk-key"}
Transcripts == {"", "put this in Groceries"}

NoteTypes == {"note", "todo", "memo"}
RoutingActions == {"create_folder", "categorize_note", "none", "archive"}
FolderArgs == {"Groceries", "groceries", "Work", "", Undefined}
Contents == {"buy milk", "", Undefined}

\* the object JSON.parse yields for the arguments of a decide call
Payloads ==
  [noteType : NoteTypes, action : RoutingActions,
   folder : FolderArgs, content : Contents]

NoArgs == [noteType |-> Undefined, action |-> Undefined,
           folder |-> Undefined, content |-> Undefined]

\* a tool call of the chat-completions response; arguments is a JSON text,
\* carried here as the payload it encodes, or flagged malformed when it is
\* not JSON
SomeTodo == [noteType |-> "todo", action |-> "none",
             folder |-> Undefined, content |-> "buy milk"]

ToolCalls ==
  [name : {"decide"}, malformed : {FALSE}, payload : Payloads]
  \cup [name : {"decide"}, malformed : {TRUE}, payload : {NoArgs}]
  \cup [name : {"lookup"}, malformed : {FALSE}, payload : {NoArgs, SomeTodo}]

\* what follows the first tool call in tool_calls
ExtraToolCalls ==
  {<<>>, <<[name |-> "decide", malformed |-> FALSE, payload |-> SomeTodo]>>}

\* what the run has seen of the classification response: nothing yet, a
\* non-success status, or a body with its tool_calls
NoResponse == [status |-> "none", toolCalls |-> 0, name |-> Undefined]

VARIABLES
  apiKey,        \* process.env.EXPO_PUBLIC_OPENAI_API_KEY of the deployment
  voiceNotes,    \* table voiceNotes: set of documents
  todos,         \* table todos
  folders,       \* table folders
  nextId,        \* per table, the id the next insert gets (ids grow with _creationTime)
  recordings,    \* recordings made so far
  isProcessing,  \* ChatScreen state, per client
  pc,            \* where the client's handleTranscription / processTranscript stands
  noteId,        \* the placeholder id passed to processTranscript
  text,          \* transcript
  fcRes,         \* classification response: status, length of tool_calls, name of the first
  args,          \* JSON.parse(toolCall.function.arguments)
  folderId,      \* the folder id handed to finalizeNote
  err,           \* message of the error processTranscript rejected with
  alert,         \* message of the Alert handleTranscription showed
  trace,         \* store calls issued by the current run, in order
  baselineTodoIds, \* ChatScreen ref: the todo ids seen when the recording stopped
  pendingNoteId, \* ChatScreen ref: the placeholder still to be reviewed
  reviewItem,    \* ChatScreen state: what the review sheet shows
  todoCall       \* the last toggleTodo / deleteTodo call of the todo list and its outcome

vars == <<apiKey, voiceNotes, todos, folders, nextId, recordings, isProcessing,
          pc, noteId, text, fcRes, args, folderId, err, alert, trace,
          baselineTodoIds, pendingNoteId, reviewItem, todoCall>>

review == <<baselineTodoIds, pendingNoteId, reviewItem>>

\* reviewItem: null, or the kind of the item with its id and the text shown
NoReview == [type |-> "none", id |-> NoId, shown |-> Undefined]

store == <<voiceNotes, todos, folders, nextId>>

\* no toggleTodo / deleteTodo call made yet
NoTodoCall == [n |-> 0, op |-> "none", id |-> NoId, err |-> Undefined]

(***************************************************************************)
(* Tables.                                                                 *)
(***************************************************************************)
Ids(table) == {d._id : d \in table}

Doc(table, id) == CHOOSE d \in table : d._id = id

\* .order("desc").collect(): newest document first
RECURSIVE OrderDesc(_)
OrderDesc(table) ==
  IF table = {} THEN <<>>
  ELSE LET newest == CHOOSE d \in table : \A e \in table : e._id <= d._id
       IN  <<newest>> \o OrderDesc(table \ {newest})

\* String.prototype.toLowerCase on the names the model uses
ToLowerCase(s) ==
  CASE s = "Groceries" -> "groceries"
    [] s = "Work" -> "work"
    [] OTHER -> s

\* v.string() accepts the value
IsString(x) == x # Undefined

\* the document addPlaceholder inserts
Placeholder(id) ==
  [_id |-> id, content |-> Sentinel, type |-> "note", folderId |-> NoId]

\* the Todo is inserted already ticked off
NewTodo_Done(id, t) == [_id |-> id, text |-> t, done |-> TRUE]

\* the document todos.create inserts
NewTodo(id, t) == [_id |-> id, text |-> t, done |-> FALSE]

\* the folder is stored under the lower-cased name
NewFolder_LowerCased(id, name) == [_id |-> id, name |-> ToLowerCase(name)]

\* the document folders.create inserts
NewFolder(id, name) == [_id |-> id, name |-> name]

\* the patch leaves content out
Patch_WithoutContent(doc, content, type, fid) ==
  [_id |-> doc._id, content |-> doc.content, type |-> type, folderId |-> fid]

\* ctx.db.patch(noteId, { content, type, folderId }) of finalizeNote
Patch(doc, content, type, fid) ==
  [_id |-> doc._id, content |-> content, type |-> type, folderId |-> fid]

Init ==
  /\ apiKey \in ApiKeys
  /\ voiceNotes = {}
  /\ todos = {}
  /\ folders = {}
  /\ nextId = [voiceNotes |-> 1, todos |-> 1, folders |-> 1]
  /\ recordings = 0
  /\ isProcessing = [c \in Clients |-> FALSE]
  /\ pc = [c \in Clients |-> "idle"]
  /\ noteId = [c \in Clients |-> NoId]
  /\ text = [c \in Clients |-> Undefined]
  /\ fcRes = [c \in Clients |-> NoResponse]
  /\ args = [c \in Clients |-> NoArgs]
  /\ folderId = [c \in Clients |-> NoId]
  /\ err = [c \in Clients |-> Undefined]
  /\ alert = [c \in Clients |-> Undefined]
  /\ trace = [c \in Clients |-> <<>>]
  /\ baselineTodoIds = [c \in Clients |-> {}]
  /\ pendingNoteId = [c \in Clients |-> NoId]
  /\ reviewItem = [c \in Clients |-> NoReview]
  /\ todoCall = NoTodoCall

(***************************************************************************)
(* Helpers of the steps.                                                   *)
(***************************************************************************)
Call(op, ok, ret) == [op |-> op, ok |-> ok, ret |-> ret]

\* the error is recorded but the action never settles
Reject_Hangs(c, message) ==
  /\ pc' = [pc EXCEPT ![c] = "hung"]
  /\ err' = [err EXCEPT ![c] = message]

\* processTranscript throws: the action rejects with the message
Reject(c, message) ==
  /\ pc' = [pc EXCEPT ![c] = "rejected"]
  /\ err' = [err EXCEPT ![c] = message]

\* the failed store call is issued again
StoreThrows_Retries(c, op, message) ==
  /\ UNCHANGED <<pc, err>>
  /\ trace' = [trace EXCEPT ![c] = Append(@, Call(op, FALSE, NoId))]
  /\ UNCHANGED store

\* the error of the store call is caught and the action returns null
StoreThrows_Swallowed(c, op, message) ==
  /\ pc' = [pc EXCEPT ![c] = "resolved"]
  /\ err' = err
  /\ trace' = [trace EXCEPT ![c] = Append(@, Call(op, FALSE, NoId))]
  /\ UNCHANGED store

\* a mutation or query that throws leaves the tables as they were
StoreThrows(c, op, message) ==
  /\ Reject(c, message)
  /\ trace' = [trace EXCEPT ![c] = Append(@, Call(op, FALSE, NoId))]
  /\ UNCHANGED store

\* tool_calls?.[0]
FirstToolCall(toolCalls) ==
  IF toolCalls = <<>> THEN [name |-> Undefined, malformed |-> FALSE, payload |-> NoArgs]
  ELSE toolCalls[1]

\* the name of the tool call is not checked
NoValidFunctionCall_AnyName(toolCalls) == toolCalls = <<>>

\* !toolCall || toolCall.function.name !== "decide"
NoValidFunctionCall(toolCalls) ==
  \/ toolCalls = <<>>
  \/ FirstToolCall(toolCalls).name # "decide"

\* the todo branch removes the placeholder without persisting the Todo first
RouteStep_DeleteFirst(a) ==
  IF a.noteType = "todo" THEN "deleteVoiceNote"
  ELSE CASE a.action = "create_folder" -> "folders.create"
         [] a.action = "categorize_note" -> "folders.list"
         [] OTHER -> "finalizeNote"

\* the store call the routing code issues first for a decision
RouteStep(a) ==
  IF a.noteType = "todo" THEN "todos.create"
  ELSE CASE a.action = "create_folder" -> "folders.create"
         [] a.action = "categorize_note" -> "folders.list"
         [] OTHER -> "finalizeNote"

\* the names are compared as they are, without toLowerCase
FindFolder_CaseSensitive(listed, name) ==
  LET hits == {i \in 1..Len(listed) : listed[i].name = name}
  IN  IF hits = {} THEN NoId
      ELSE listed[CHOOSE i \in hits : \A j \in hits : i <= j]._id

\* the last match of the list is taken instead of the first
FindFolder_LastMatch(listed, name) ==
  LET hits == {i \in 1..Len(listed) :
                 ToLowerCase(listed[i].name) = ToLowerCase(name)}
  IN  IF hits = {} THEN NoId
      ELSE listed[CHOOSE i \in hits : \A j \in hits : j <= i]._id

\* folders.find((f) => f.name.toLowerCase() === args.folder.toLowerCase())
\* over the listed folders; NoId when find returns undefined
FindFolder(listed, name) ==
  LET hits == {i \in 1..Len(listed) :
                 ToLowerCase(listed[i].name) = ToLowerCase(name)}
  IN  IF hits = {} THEN NoId
      ELSE listed[CHOOSE i \in hits : \A j \in hits : i <= j]._id

\* tool_calls of the responses: none, one call, or a call the routing does
\* not depend on followed by further calls
ToolCallLists ==
  {<<>>} \cup {<<t>> : t \in ToolCalls}
         \cup {<<t>> \o e : t \in {u \in ToolCalls : u.payload \in {NoArgs, SomeTodo}},
                            e \in ExtraToolCalls}

\* the responses a well-behaved model gives: one decide call that follows
\* the schema
Decide(noteType, action, folder, content) ==
  <<[name |-> "decide", malformed |-> FALSE,
     payload |-> [noteType |-> noteType, action |-> action,
                  folder |-> folder, content |-> content]]>>

SchemaToolCallLists ==
  {Decide("todo", "none", Undefined, "buy milk"),
   Decide("note", "none", Undefined, Sentinel),
   Decide("note", "categorize_note", "Groceries", "buy milk"),
   Decide("note", "categorize_note", "groceries", "")}

\* the decisions that name a folder, in both spellings
FolderToolCallLists ==
  {Decide("note", "create_folder", "Groceries", "buy milk"),
   Decide("note", "categorize_note", "groceries", "buy milk")}

\* the decisions that make a Todo
TodoToolCallLists ==
  {Decide("todo", "none", Undefined, "buy milk"),
   Decide("todo", "none", Undefined, "")}

(***************************************************************************)
(* Chat screen.                                                            *)
(***************************************************************************)
\* toggleRecording stops the recorder and enters handleTranscription; the
\* record button is disabled while isProcessing
HandleTranscriptionWithin(c, max) ==
  /\ ~isProcessing[c]
  /\ pc[c] \in {"idle", "resolved", "rejected"}
  /\ recordings < max
  /\ recordings' = recordings + 1
  /\ isProcessing' = [isProcessing EXCEPT ![c] = TRUE]
  /\ pc' = [pc EXCEPT ![c] = "addPlaceholder"]
  /\ noteId' = [noteId EXCEPT ![c] = NoId]
  /\ text' = [text EXCEPT ![c] = Undefined]
  /\ fcRes' = [fcRes EXCEPT ![c] = NoResponse]
  /\ args' = [args EXCEPT ![c] = NoArgs]
  /\ folderId' = [folderId EXCEPT ![c] = NoId]
  /\ err' = [err EXCEPT ![c] = Undefined]
  /\ alert' = [alert EXCEPT ![c] = Undefined]
  /\ trace' = [trace EXCEPT ![c] = <<>>]
  /\ UNCHANGED <<apiKey, store>>
  /\ baselineTodoIds' = [baselineTodoIds EXCEPT ![c] = Ids(todos)]
  /\ UNCHANGED <<pendingNoteId, reviewItem, todoCall>>

HandleTranscription(c) == HandleTranscriptionWithin(c, MaxRuns)

\* voiceNotes.addPlaceholder, awaited by handleTranscription
AddPlaceholder(c) ==
  /\ pc[c] = "addPlaceholder"
  /\ \E ok \in BOOLEAN :
       IF ok
       THEN /\ voiceNotes' = voiceNotes \cup
                 {Placeholder(nextId.voiceNotes)}
            /\ nextId' = [nextId EXCEPT !.voiceNotes = @ + 1]
            /\ noteId' = [noteId EXCEPT ![c] = nextId.voiceNotes]
            /\ pendingNoteId' = [pendingNoteId EXCEPT ![c] = nextId.voiceNotes]
            /\ pc' = [pc EXCEPT ![c] = "processTranscript"]
            /\ UNCHANGED <<isProcessing, alert>>
       ELSE /\ pc' = [pc EXCEPT ![c] = "idle"]
            /\ alert' = [alert EXCEPT ![c] = "StoreError"]
            /\ isProcessing' = [isProcessing EXCEPT ![c] = FALSE]
            /\ UNCHANGED <<voiceNotes, nextId, noteId, pendingNoteId>>
  /\ UNCHANGED <<apiKey, todos, folders, recordings, text, fcRes, args,
                 folderId, err, trace>>
  /\ UNCHANGED <<baselineTodoIds, reviewItem, todoCall>>

\* isProcessing is cleared after the awaited call only, not in a finally
Settle_OnSuccessOnly(c) ==
  /\ pc[c] = "resolved"
  /\ isProcessing[c]
  /\ isProcessing' = [isProcessing EXCEPT ![c] = FALSE]
  /\ UNCHANGED <<apiKey, store, recordings, pc, noteId, text, fcRes,
                 args, folderId, err, alert, trace>>
  /\ UNCHANGED <<review, todoCall>>

\* the awaited processTranscript settled: catch shows the alert, finally
\* clears isProcessing
Settle(c) ==
  /\ pc[c] \in {"resolved", "rejected"}
  /\ isProcessing[c]
  /\ isProcessing' = [isProcessing EXCEPT ![c] = FALSE]
  /\ alert' = [alert EXCEPT ![c] = IF pc[c] = "rejected" THEN err[c] ELSE @]
  /\ UNCHANGED <<apiKey, store, recordings, pc, noteId, text, fcRes,
                 args, folderId, err, trace>>
  /\ UNCHANGED <<review, todoCall>>

(***************************************************************************)
(* processTranscript.                                                      *)
(***************************************************************************)
\* the transcription request is sent whether or not there is a key
ProcessTranscript_NoKeyCheck(c) ==
  /\ pc[c] = "processTranscript"
  /\ pc' = [pc EXCEPT ![c] = "transcription"]
  /\ UNCHANGED <<apiKey, store, recordings, isProcessing, noteId, text,
                 fcRes, args, folderId, err, alert, trace>>
  /\ UNCHANGED <<review, todoCall>>

\* entry: the API key check, then the transcription request is sent
ProcessTranscript(c) ==
  /\ pc[c] = "processTranscript"
  /\ IF apiKey = Undefined
     THEN Reject(c, "Missing OpenAI API key")
     ELSE /\ pc' = [pc EXCEPT ![c] = "transcription"]
          /\ UNCHANGED err
  /\ UNCHANGED <<apiKey, store, recordings, isProcessing, noteId, text,
                 fcRes, args, folderId, alert, trace>>
  /\ UNCHANGED <<review, todoCall>>

\* the status of the transcription response is not looked at
TranscriptionOf_IgnoresStatus(c, transcripts) ==
  /\ pc[c] = "transcription"
  /\ \E ok \in BOOLEAN, t \in transcripts :
       text' = [text EXCEPT ![c] = IF ok THEN t ELSE Undefined]
  /\ pc' = [pc EXCEPT ![c] = "classification"]
  /\ UNCHANGED <<apiKey, store, recordings, isProcessing, noteId,
                 fcRes, args, folderId, err, alert, trace>>
  /\ UNCHANGED <<review, todoCall>>

\* the transcription response arrives; on success the classification
\* request is sent
TranscriptionOf(c, transcripts) ==
  /\ pc[c] = "transcription"
  /\ \E ok \in BOOLEAN, t \in transcripts :
       IF ~ok
       THEN /\ Reject(c, "Whisper API error")
            /\ UNCHANGED text
       ELSE /\ text' = [text EXCEPT ![c] = t]
            /\ pc' = [pc EXCEPT ![c] = "classification"]
            /\ UNCHANGED err
  /\ UNCHANGED <<apiKey, store, recordings, isProcessing, noteId,
                 fcRes, args, folderId, alert, trace>>
  /\ UNCHANGED <<review, todoCall>>

Transcription(c) == TranscriptionOf(c, Transcripts)

\* the same step when something was said
SpokenTranscription(c) == TranscriptionOf(c, Transcripts \ {""})

\* the parsed decision is kept in one place that all runs read
ClassificationOf_SharedArgs(c, responses) ==
  /\ pc[c] = "classification"
  /\ \E toolCalls \in responses \ {<<>>} :
       LET toolCall == FirstToolCall(toolCalls) IN
       /\ fcRes' = [fcRes EXCEPT ![c] =
                      [status |-> "ok", toolCalls |-> Len(toolCalls),
                       name |-> toolCall.name]]
       /\ args' = [d \in Clients |-> toolCall.payload]
       /\ pc' = [pc EXCEPT ![c] = RouteStep(toolCall.payload)]
  /\ UNCHANGED <<apiKey, store, recordings, isProcessing, noteId, text,
                 folderId, err, alert, trace>>
  /\ UNCHANGED <<review, todoCall>>

\* the classification response arrives; the decision is parsed and the
\* first store call of its branch is issued
ClassificationOf(c, responses) ==
  /\ pc[c] = "classification"
  /\ \E ok \in BOOLEAN, toolCalls \in responses :
       LET toolCall == FirstToolCall(toolCalls) IN
       IF ~ok
       THEN /\ fcRes' = [fcRes EXCEPT ![c] =
                           [status |-> "error", toolCalls |-> 0, name |-> Undefined]]
            /\ Reject(c, "OpenAI API error")
            /\ UNCHANGED args
       ELSE /\ fcRes' = [fcRes EXCEPT ![c] =
                           [status |-> "ok", toolCalls |-> Len(toolCalls),
                            name |-> toolCall.name]]
            /\ IF NoValidFunctionCall(toolCalls)
               THEN /\ Reject(c, "No valid function call in response")
                    /\ UNCHANGED args
               ELSE IF toolCall.malformed
               THEN /\ Reject(c, "SyntaxError")
                    /\ UNCHANGED args
               ELSE /\ args' = [args EXCEPT ![c] = toolCall.payload]
                    /\ pc' = [pc EXCEPT ![c] = RouteStep(toolCall.payload)]
                    /\ UNCHANGED err
  /\ UNCHANGED <<apiKey, store, recordings, isProcessing, noteId, text,
                 folderId, alert, trace>>
  /\ UNCHANGED <<review, todoCall>>

Classification(c) == ClassificationOf(c, ToolCallLists)

\* the same step when the model answers as the tool schema asks
SchemaClassification(c) == ClassificationOf(c, SchemaToolCallLists)
FolderClassification(c) == ClassificationOf(c, FolderToolCallLists)
TodoClassification(c) == ClassificationOf(c, TodoToolCallLists)

\* the todo is filed: the folder the decision names is created along with it
TodosCreate_Foldered(c) ==
  /\ pc[c] = "todos.create"
  /\ todos' = todos \cup {NewTodo(nextId.todos, args[c].content)}
  /\ folders' = folders \cup {NewFolder(nextId.folders, args[c].folder)}
  /\ nextId' = [nextId EXCEPT !.todos = @ + 1, !.folders = @ + 1]
  /\ trace' = [trace EXCEPT ![c] =
                 Append(@, Call("todos.create", TRUE, nextId.todos))]
  /\ pc' = [pc EXCEPT ![c] = "deleteVoiceNote"]
  /\ UNCHANGED <<apiKey, voiceNotes, recordings, isProcessing, noteId, text,
                 fcRes, args, folderId, err, alert>>
  /\ UNCHANGED <<review, todoCall>>

\* ctx.runMutation(api.todos.create, { text: args.content })
TodosCreate(c) ==
  /\ pc[c] = "todos.create"
  /\ \E ok \in BOOLEAN :
       IF ~IsString(args[c].content)
       THEN StoreThrows(c, "todos.create", "ArgumentValidationError")
       ELSE IF ~ok
       THEN StoreThrows(c, "todos.create", "StoreError")
       ELSE /\ todos' = todos \cup
                 {NewTodo(nextId.todos, args[c].content)}
            /\ nextId' = [nextId EXCEPT !.todos = @ + 1]
            /\ trace' = [trace EXCEPT ![c] =
                           Append(@, Call("todos.create", TRUE, nextId.todos))]
            /\ pc' = [pc EXCEPT ![c] = "deleteVoiceNote"]
            /\ UNCHANGED <<voiceNotes, folders, err>>
  /\ UNCHANGED <<apiKey, recordings, isProcessing, noteId, text, fcRes,
                 args, folderId, alert>>
  /\ UNCHANGED <<review, todoCall>>

\* the placeholder is never removed: the action returns after todos.create
DeleteVoiceNote_Omitted(c) ==
  /\ pc[c] = "deleteVoiceNote"
  /\ pc' = [pc EXCEPT ![c] = "resolved"]
  /\ UNCHANGED <<apiKey, store, recordings, isProcessing, noteId, text, fcRes,
                 args, folderId, err, alert, trace>>
  /\ UNCHANGED <<review, todoCall>>

\* ctx.runMutation(api.voiceNotes.deleteVoiceNote, { id: noteId }); return null
DeleteVoiceNote(c) ==
  /\ pc[c] = "deleteVoiceNote"
  /\ \E ok \in BOOLEAN :
       IF noteId[c] \notin Ids(voiceNotes)
       THEN StoreThrows(c, "deleteVoiceNote", "Delete on nonexistent document")
       ELSE IF ~ok
       THEN StoreThrows(c, "deleteVoiceNote", "StoreError")
       ELSE /\ voiceNotes' = voiceNotes \ {Doc(voiceNotes, noteId[c])}
            /\ trace' = [trace EXCEPT ![c] =
                           Append(@, Call("deleteVoiceNote", TRUE, NoId))]
            /\ pc' = [pc EXCEPT ![c] = "resolved"]
            /\ UNCHANGED <<todos, folders, nextId, err>>
  /\ UNCHANGED <<apiKey, recordings, isProcessing, noteId, text, fcRes,
                 args, folderId, alert>>
  /\ UNCHANGED <<review, todoCall>>

\* an id is handed back although no folder was inserted
FoldersCreate_Dangling(c) ==
  /\ pc[c] = "folders.create"
  /\ nextId' = [nextId EXCEPT !.folders = @ + 1]
  /\ folderId' = [folderId EXCEPT ![c] = nextId.folders]
  /\ trace' = [trace EXCEPT ![c] =
                 Append(@, Call("folders.create", TRUE, nextId.folders))]
  /\ pc' = [pc EXCEPT ![c] = "finalizeNote"]
  /\ UNCHANGED <<apiKey, voiceNotes, todos, folders, recordings, isProcessing,
                 noteId, text, fcRes, args, err, alert>>
  /\ UNCHANGED <<review, todoCall>>

\* ctx.runMutation(api.folders.create, { name: args.folder })
FoldersCreate(c) ==
  /\ pc[c] = "folders.create"
  /\ \E ok \in BOOLEAN :
       IF ~IsString(args[c].folder)
       THEN /\ StoreThrows(c, "folders.create", "ArgumentValidationError")
            /\ UNCHANGED folderId
       ELSE IF ~ok
       THEN /\ StoreThrows(c, "folders.create", "StoreError")
            /\ UNCHANGED folderId
       ELSE /\ folders' = folders \cup
                 {NewFolder(nextId.folders, args[c].folder)}
            /\ nextId' = [nextId EXCEPT !.folders = @ + 1]
            /\ folderId' = [folderId EXCEPT ![c] = nextId.folders]
            /\ trace' = [trace EXCEPT ![c] =
                           Append(@, Call("folders.create", TRUE, nextId.folders))]
            /\ pc' = [pc EXCEPT ![c] = "finalizeNote"]
            /\ UNCHANGED <<voiceNotes, todos, err>>
  /\ UNCHANGED <<apiKey, recordings, isProcessing, noteId, text, fcRes,
                 args, alert>>
  /\ UNCHANGED <<review, todoCall>>

\* the list is read but not searched: the folder is always created
FoldersList_NoLookup(c) ==
  /\ pc[c] = "folders.list"
  /\ trace' = [trace EXCEPT ![c] =
                 Append(@, Call("folders.list", TRUE, Cardinality(folders)))]
  /\ pc' = [pc EXCEPT ![c] = "folders.create"]
  /\ UNCHANGED <<apiKey, store, recordings, isProcessing, noteId, text,
                 fcRes, args, folderId, err, alert>>
  /\ UNCHANGED <<review, todoCall>>

\* ctx.runQuery(api.folders.list, {}) and the find over its result
FoldersList(c) ==
  /\ pc[c] = "folders.list"
  /\ \E ok \in BOOLEAN :
       LET listed == OrderDesc(folders)
           existingFolder == FindFolder(listed, args[c].folder)
       IN
       IF ~ok
       THEN /\ StoreThrows(c, "folders.list", "StoreError")
            /\ UNCHANGED folderId
       ELSE /\ trace' = [trace EXCEPT ![c] =
                           Append(@, Call("folders.list", TRUE, Len(listed)))]
            /\ UNCHANGED store
            /\ IF listed # <<>> /\ ~IsString(args[c].folder)
               THEN /\ Reject(c, "TypeError")
                    /\ UNCHANGED folderId
               ELSE IF existingFolder = NoId
               THEN /\ pc' = [pc EXCEPT ![c] = "folders.create"]
                    /\ UNCHANGED <<folderId, err>>
               ELSE /\ folderId' = [folderId EXCEPT ![c] = existingFolder]
                    /\ pc' = [pc EXCEPT ![c] = "finalizeNote"]
                    /\ UNCHANGED err
  /\ UNCHANGED <<apiKey, recordings, isProcessing, noteId, text, fcRes,
                 args, alert>>
  /\ UNCHANGED <<review, todoCall>>

\* a missing record is written anew under the same id
FinalizeNote_Upserts(c) ==
  /\ pc[c] = "finalizeNote"
  /\ voiceNotes' = {n \in voiceNotes : n._id # noteId[c]} \cup
       {Patch(Placeholder(noteId[c]), args[c].content, "note", folderId[c])}
  /\ trace' = [trace EXCEPT ![c] = Append(@, Call("finalizeNote", TRUE, NoId))]
  /\ pc' = [pc EXCEPT ![c] = "resolved"]
  /\ UNCHANGED <<apiKey, todos, folders, nextId, recordings, isProcessing,
                 noteId, text, fcRes, args, folderId, err, alert>>
  /\ UNCHANGED <<review, todoCall>>

\* the note is inserted as a new record and the placeholder is left behind
FinalizeNote_Inserts(c) ==
  /\ pc[c] = "finalizeNote"
  /\ voiceNotes' = voiceNotes \cup
       {Patch(Placeholder(nextId.voiceNotes), args[c].content, "note",
              folderId[c])}
  /\ nextId' = [nextId EXCEPT !.voiceNotes = @ + 1]
  /\ trace' = [trace EXCEPT ![c] = Append(@, Call("finalizeNote", TRUE, NoId))]
  /\ pc' = [pc EXCEPT ![c] = "resolved"]
  /\ UNCHANGED <<apiKey, todos, folders, recordings, isProcessing, noteId,
                 text, fcRes, args, folderId, err, alert>>
  /\ UNCHANGED <<review, todoCall>>

\* ctx.runMutation(internal.voiceNotes.finalizeNote, {...baseNoteData, folderId})
FinalizeNote(c) ==
  /\ pc[c] = "finalizeNote"
  /\ \E ok \in BOOLEAN :
       IF ~IsString(args[c].content)
       THEN StoreThrows(c, "finalizeNote", "ArgumentValidationError")
       ELSE IF noteId[c] \notin Ids(voiceNotes)
       THEN StoreThrows(c, "finalizeNote", "Update on nonexistent document")
       ELSE IF ~ok
       THEN StoreThrows(c, "finalizeNote", "StoreError")
       ELSE /\ voiceNotes' = (voiceNotes \ {Doc(voiceNotes, noteId[c])}) \cup
                 {Patch(Doc(voiceNotes, noteId[c]), args[c].content, "note",
                        folderId[c])}
            /\ trace' = [trace EXCEPT ![c] =
                           Append(@, Call("finalizeNote", TRUE, NoId))]
            /\ pc' = [pc EXCEPT ![c] = "resolved"]
            /\ UNCHANGED <<todos, folders, nextId, err>>
  /\ UNCHANGED <<apiKey, recordings, isProcessing, noteId, text, fcRes,
                 args, folderId, alert>>
  /\ UNCHANGED <<review, todoCall>>

\* todos.find((t) => !baselineTodoIds.current.includes(t._id)) over
\* todos.list, which is ordered newest first
FindNewTodo(listed, baseline) ==
  LET fresh == {i \in 1..Len(listed) : listed[i]._id \notin baseline}
  IN  IF fresh = {} THEN NoId
      ELSE listed[CHOOSE i \in fresh : \A j \in fresh : i <= j]._id

\* a voice note that still reads "Processing..." is not offered for review
ReviewEffect_SkipsPlaceholder(c) ==
  /\ ~isProcessing[c]
  /\ pendingNoteId[c] # NoId
  /\ LET updatedVoiceNote ==
           {n \in voiceNotes : n._id = pendingNoteId[c] /\ n.content # Sentinel}
     IN  IF updatedVoiceNote # {}
         THEN reviewItem' = [reviewItem EXCEPT ![c] =
                [type |-> "voiceNote", id |-> pendingNoteId[c],
                 shown |-> Doc(voiceNotes, pendingNoteId[c]).content]]
         ELSE UNCHANGED reviewItem
  /\ pendingNoteId' = [pendingNoteId EXCEPT ![c] = NoId]
  /\ UNCHANGED <<apiKey, store, recordings, isProcessing, pc, noteId, text,
                 fcRes, args, folderId, err, alert, trace, baselineTodoIds,
                 todoCall>>

\* the review effect of the chat screen: it runs when processing is over and
\* a placeholder is still to be reviewed; it shows the voice note of that id
\* if it is in the list, else a todo that is not in the baseline; when it
\* finds neither it leaves everything as it is
ReviewEffect(c) ==
  /\ ~isProcessing[c]
  /\ pendingNoteId[c] # NoId
  /\ LET updatedVoiceNote == {n \in voiceNotes : n._id = pendingNoteId[c]}
         newTodo == FindNewTodo(OrderDesc(todos), baselineTodoIds[c])
     IN  \/ /\ updatedVoiceNote # {}
            /\ reviewItem' = [reviewItem EXCEPT ![c] =
                 [type |-> "voiceNote", id |-> pendingNoteId[c],
                  shown |-> Doc(voiceNotes, pendingNoteId[c]).content]]
         \/ /\ updatedVoiceNote = {}
            /\ newTodo # NoId
            /\ reviewItem' = [reviewItem EXCEPT ![c] =
                 [type |-> "todo", id |-> newTodo,
                  shown |-> Doc(todos, newTodo).text]]
  /\ pendingNoteId' = [pendingNoteId EXCEPT ![c] = NoId]
  /\ UNCHANGED <<apiKey, store, recordings, isProcessing, pc, noteId, text,
                 fcRes, args, folderId, err, alert, trace, baselineTodoIds,
                 todoCall>>

Next ==
  \/ HandleTranscription(1)
  \/ AddPlaceholder(1)
  \/ Settle(1)
  \/ ProcessTranscript(1)
  \/ Transcription(1)
  \/ Classification(1)
  \/ TodosCreate(1)
  \/ DeleteVoiceNote(1)
  \/ FoldersCreate(1)
  \/ FoldersList(1)
  \/ FinalizeNote(1)

Spec == Init /\ [][Next]_vars

(***************************************************************************)
(* Notes screen.                                                           *)
(***************************************************************************)
\* the voice notes the screen renders a NoteCard for: type "note", either
\* without a folder (quick notes) or under one of the listed folders
NoteCards ==
  {n \in voiceNotes :
     n.type = "note" /\ (n.folderId = NoId \/ n.folderId \in Ids(folders))}

\* the trash button of a NoteCard: deleteVoiceNote({ id: note._id })
NoteCardDelete ==
  /\ \E n \in NoteCards : voiceNotes' = voiceNotes \ {n}
  /\ UNCHANGED <<apiKey, todos, folders, nextId, recordings, isProcessing,
                 pc, noteId, text, fcRes, args, folderId, err, alert, trace>>
  /\ UNCHANGED <<review, todoCall>>

\* one chat screen next to the notes screen
UINext ==
  \/ HandleTranscription(1)
  \/ AddPlaceholder(1)
  \/ Settle(1)
  \/ ProcessTranscript(1)
  \/ Transcription(1)
  \/ SchemaClassification(1)
  \/ TodosCreate(1)
  \/ DeleteVoiceNote(1)
  \/ FoldersCreate(1)
  \/ FoldersList(1)
  \/ FinalizeNote(1)
  \/ NoteCardDelete

UISpec == Init /\ [][UINext]_vars

(***************************************************************************)
(* Several chat screens on the same deployment: their runs overlap, each   *)
(* store call is one transaction.                                          *)
(***************************************************************************)
ConcNext ==
  \E c \in Clients :
    \/ HandleTranscription(c)
    \/ AddPlaceholder(c)
    \/ Settle(c)
    \/ ProcessTranscript(c)
    \/ SpokenTranscription(c)
    \/ SchemaClassification(c)
    \/ TodosCreate(c)
    \/ DeleteVoiceNote(c)
    \/ FoldersCreate(c)
    \/ FoldersList(c)
    \/ FinalizeNote(c)

ConcSpec == Init /\ [][ConcNext]_vars

(***************************************************************************)
(* Runs that all name a folder, on a pair of screens: folders of the same  *)
(* name pile up by create_folder and by overlapping lookups, and later     *)
(* lookups find them.                                                      *)
(***************************************************************************)
FolderScreens == {c \in Clients : c <= 2}

FolderNext ==
  \E c \in FolderScreens :
    \/ HandleTranscriptionWithin(c, MaxFolderRuns)
    \/ AddPlaceholder(c)
    \/ Settle(c)
    \/ ProcessTranscript(c)
    \/ SpokenTranscription(c)
    \/ FolderClassification(c)
    \/ FoldersCreate(c)
    \/ FoldersList(c)
    \/ FinalizeNote(c)

FolderSpec == Init /\ [][FolderNext]_vars

(***************************************************************************)
(* The todo list: a row is tapped to toggle it, its trash button deletes   *)
(* it.  The list a screen shows may be stale, so a call can carry the id   *)
(* of a todo that is gone.                                                 *)
(***************************************************************************)
\* ids of the todos inserted so far
TodoIds == 1..(nextId.todos - 1)

\* the done flag is set instead of negated
Toggled_SetsDone(todo) == [todo EXCEPT !.done = TRUE]

\* ctx.db.patch(args.id, { done: !todo.done })
Toggled(todo) == [todo EXCEPT !.done = ~todo.done]

\* todos.toggleTodo
ToggleTodo(id) ==
  /\ todoCall.n < MaxTodoCalls
  /\ IF id \notin Ids(todos)
     THEN /\ todoCall' = [n |-> todoCall.n + 1, op |-> "toggleTodo", id |-> id,
                          err |-> "Todo not found"]
          /\ UNCHANGED todos
     ELSE /\ todos' = (todos \ {Doc(todos, id)}) \cup {Toggled(Doc(todos, id))}
          /\ todoCall' = [n |-> todoCall.n + 1, op |-> "toggleTodo", id |-> id,
                          err |-> Undefined]
  /\ UNCHANGED <<apiKey, voiceNotes, folders, nextId, recordings, isProcessing,
                 pc, noteId, text, fcRes, args, folderId, err, alert, trace>>
  /\ UNCHANGED review

\* todos.deleteTodo
DeleteTodo(id) ==
  /\ todoCall.n < MaxTodoCalls
  /\ IF id \notin Ids(todos)
     THEN /\ todoCall' = [n |-> todoCall.n + 1, op |-> "deleteTodo", id |-> id,
                          err |-> "Delete on nonexistent document"]
          /\ UNCHANGED todos
     ELSE /\ todos' = todos \ {Doc(todos, id)}
          /\ todoCall' = [n |-> todoCall.n + 1, op |-> "deleteTodo", id |-> id,
                          err |-> Undefined]
  /\ UNCHANGED <<apiKey, voiceNotes, folders, nextId, recordings, isProcessing,
                 pc, noteId, text, fcRes, args, folderId, err, alert, trace>>
  /\ UNCHANGED review

\* one chat screen whose recordings become todos, next to the todo list
TodoNext ==
  \/ HandleTranscription(1)
  \/ AddPlaceholder(1)
  \/ Settle(1)
  \/ ProcessTranscript(1)
  \/ SpokenTranscription(1)
  \/ TodoClassification(1)
  \/ TodosCreate(1)
  \/ DeleteVoiceNote(1)
  \/ \E id \in TodoIds : ToggleTodo(id)
  \/ \E id \in TodoIds : DeleteTodo(id)

TodoSpec == Init /\ [][TodoNext]_vars

(***************************************************************************)
(* The chat screen with its review sheet: one screen alone, and several    *)
(* screens whose runs overlap.                                             *)
(***************************************************************************)
ChatNext ==
  \/ HandleTranscription(1)
  \/ AddPlaceholder(1)
  \/ Settle(1)
  \/ ProcessTranscript(1)
  \/ Transcription(1)
  \/ SchemaClassification(1)
  \/ TodosCreate(1)
  \/ DeleteVoiceNote(1)
  \/ FoldersCreate(1)
  \/ FoldersList(1)
  \/ FinalizeNote(1)
  \/ ReviewEffect(1)

ChatSpec == Init /\ [][ChatNext]_vars

ConcChatNext ==
  \E c \in Clients :
    \/ HandleTranscription(c)
    \/ AddPlaceholder(c)
    \/ Settle(c)
    \/ ProcessTranscript(c)
    \/ SpokenTranscription(c)
    \/ SchemaClassification(c)
    \/ TodosCreate(c)
    \/ DeleteVoiceNote(c)
    \/ FoldersCreate(c)
    \/ FoldersList(c)
    \/ FinalizeNote(c)
    \/ ReviewEffect(c)

ConcChatSpec == Init /\ [][ConcChatNext]_vars

(***************************************************************************)
(* Every external call of a run returns: the step that awaits it is        *)
(* eventually taken, with a result or with an error.  The notes screen is  *)
(* there and nothing obliges it to act.                                    *)
(***************************************************************************)
Pipeline(c) ==
  \/ ProcessTranscript(c)
  \/ Transcription(c)
  \/ SchemaClassification(c)
  \/ TodosCreate(c)
  \/ DeleteVoiceNote(c)
  \/ FoldersCreate(c)
  \/ FoldersList(c)
  \/ FinalizeNote(c)

LiveSpec == UISpec /\ WF_vars(Pipeline(1))

\* the chat screen when, besides, its own awaits resume once the awaited
\* call has settled
ChatLiveSpec ==
  ChatSpec /\ WF_vars(Pipeline(1)) /\ WF_vars(AddPlaceholder(1))
           /\ WF_vars(Settle(1))

(***************************************************************************)
(* What a run has done to the store, read off its call log.                *)
(***************************************************************************)
Issued(c, op) == {i \in DOMAIN trace[c] : trace[c][i].op = op}
Done(c, op) == {i \in Issued(c, op) : trace[c][i].ok}
Returned(c, op) == {trace[c][i].ret : i \in Done(c, op)}
Failed(c) == {i \in DOMAIN trace[c] : ~trace[c][i].ok}

Exists(c) == noteId[c] \in Ids(voiceNotes)
Pending(c) == Exists(c) /\ Doc(voiceNotes, noteId[c]) = Placeholder(noteId[c])

(***************************************************************************)
(* C1: a run of processTranscript that resolves has applied exactly one    *)
(* terminal mutation to its placeholder: one successful finalizeNote (the  *)
(* placeholder is still in voiceNotes) or one successful deleteVoiceNote   *)
(* (it is gone), never both and never neither.                             *)
(***************************************************************************)
C1_ExactlyOneTerminalMutation ==
  \A c \in Clients :
    pc[c] = "resolved" =>
      LET finalized == Cardinality(Done(c, "finalizeNote"))
          deleted == Cardinality(Done(c, "deleteVoiceNote"))
      IN  /\ finalized + deleted = 1
          /\ deleted = 1 => ~Exists(c)
          /\ finalized = 1 => Exists(c)

C1_Witness ==
  /\ pc[1] = "resolved"
  /\ Done(1, "deleteVoiceNote") # {}
  /\ \E n \in voiceNotes : n.content = "buy milk"

(***************************************************************************)
(* C2: when a run with noteType = "todo" has resolved, todos holds the     *)
(* Todo this run inserted, its text is the decision's content and done is  *)
(* false, and the run's placeholder is no longer in voiceNotes.            *)
(***************************************************************************)
C2_TodoCreatedPlaceholderGone ==
  \A c \in Clients :
    (pc[c] = "resolved" /\ args[c].noteType = "todo") =>
      /\ Cardinality(Returned(c, "todos.create")) = 1
      /\ \A id \in Returned(c, "todos.create") :
            /\ id \in Ids(todos)
            /\ Doc(todos, id).text = args[c].content
            /\ Doc(todos, id).done = FALSE
      /\ ~Exists(c)

C2_Witness ==
  /\ pc[1] = "resolved"
  /\ args[1].noteType = "todo"
  /\ args[1].content = "buy milk"
  /\ Cardinality(todos) = 2

(***************************************************************************)
(* C3: on the todo branch the Todo is inserted before the placeholder is   *)
(* deleted.  In every reachable state (every prefix of a run, so also one  *)
(* cut by a crash or ended by a failed delete): once the run has deleted   *)
(* its placeholder its Todo is in todos, and between the two steps, or     *)
(* after a delete that threw, the Todo is in todos and the placeholder is  *)
(* still present and pending.                                              *)
(***************************************************************************)
C3_TodoBeforeDelete ==
  \A c \in Clients :
    LET created == Returned(c, "todos.create") IN
    /\ Issued(c, "deleteVoiceNote") # {} =>
          created # {} /\ created \subseteq Ids(todos)
    /\ (args[c].noteType = "todo" /\ noteId[c] # NoId /\ ~Exists(c)) =>
          created # {} /\ created \subseteq Ids(todos)
    /\ (created # {} /\ Done(c, "deleteVoiceNote") = {}) =>
          created \subseteq Ids(todos) /\ Pending(c)

\* the delete threw after the Todo was committed
C3_Witness ==
  /\ pc[1] = "rejected"
  /\ Returned(1, "todos.create") # {}
  /\ Issued(1, "deleteVoiceNote") # {}
  /\ Pending(1)

(***************************************************************************)
(* Folder resolution.                                                      *)
(***************************************************************************)
SameNameIgnoringCase(a, b) == ToLowerCase(a) = ToLowerCase(b)
DifferOnlyByCase(a, b) == a # b /\ SameNameIgnoringCase(a, b)

NoteDecision(c) == args[c].noteType = "note"
FolderDecision(c) ==
  NoteDecision(c) /\ args[c].action \in {"create_folder", "categorize_note"}

\* a folder the run did not create itself carries the requested name, up to case
ExistingMatches(c) ==
  {f \in folders : /\ f._id \notin Returned(c, "folders.create")
                   /\ IsString(args[c].folder)
                   /\ SameNameIgnoringCase(f.name, args[c].folder)}

(***************************************************************************)
(* C4: folder dedup over runs that do not overlap (Spec runs them one      *)
(* after the other): a run that needs a folder for a name (create_folder   *)
(* or categorize_note) while a folder of that name up to letter case       *)
(* exists creates no folder, and folders never holds two folders whose     *)
(* names differ only by case.                                              *)
(***************************************************************************)
C4_FolderDedup ==
  /\ \A c \in Clients :
       (/\ FolderDecision(c)
        /\ \E f \in ExistingMatches(c) : DifferOnlyByCase(f.name, args[c].folder)) =>
          Done(c, "folders.create") = {}
  /\ \A f, g \in folders : ~DifferOnlyByCase(f.name, g.name)

(***************************************************************************)
(* C5: a resolved run with noteType = "note", action = "categorize_note"   *)
(* and a folder name that an existing folder carries up to letter case     *)
(* has created no folder, and its placeholder now has content =            *)
(* args.content, type = "note" and the id of such an existing folder as    *)
(* folderId.                                                               *)
(***************************************************************************)
C5_CategorizeReusesFolder ==
  \A c \in Clients :
    (/\ pc[c] = "resolved"
     /\ NoteDecision(c)
     /\ args[c].action = "categorize_note"
     /\ ExistingMatches(c) # {}) =>
       /\ Issued(c, "folders.create") = {}
       /\ Exists(c)
       /\ LET note == Doc(voiceNotes, noteId[c]) IN
            /\ note.content = args[c].content
            /\ note.type = "note"
            /\ note.folderId \in Ids(ExistingMatches(c))

C5_Witness ==
  /\ pc[1] = "resolved"
  /\ args[1].action = "categorize_note"
  /\ args[1].folder = "Groceries"
  /\ args[1].content = "buy milk"
  /\ folders = {NewFolder(1, "groceries")}
  /\ NoteDecision(1)
  /\ Exists(1)
  /\ Doc(voiceNotes, noteId[1]).folderId = 1

(***************************************************************************)
(* C6: a resolved run with noteType = "note", a folder action              *)
(* (create_folder or categorize_note) and a folder name no existing folder *)
(* carries up to letter case has created exactly one folder, named         *)
(* args.folder in the caller's casing, and its placeholder is finalized    *)
(* with that folder's id.                                                  *)
(***************************************************************************)
C6_MissingFolderCreated ==
  \A c \in Clients :
    (pc[c] = "resolved" /\ FolderDecision(c) /\ ExistingMatches(c) = {}) =>
       /\ Cardinality(Done(c, "folders.create")) = 1
       /\ Exists(c)
       /\ \A id \in Returned(c, "folders.create") :
            /\ id \in Ids(folders)
            /\ Doc(folders, id).name = args[c].folder
            /\ Doc(voiceNotes, noteId[c]).folderId = id
            /\ Doc(voiceNotes, noteId[c]).content = args[c].content

C6_Witness ==
  /\ pc[1] = "resolved"
  /\ args[1].action = "categorize_note"
  /\ args[1].folder = "Groceries"
  /\ folders = {NewFolder(1, "Work"), NewFolder(2, "Groceries")}
  /\ Doc(voiceNotes, noteId[1]).folderId = 2

(***************************************************************************)
(* C7: a run with noteType = "note" and action = "none" issues no call on  *)
(* folders, creates no Todo and does not delete its placeholder; when it   *)
(* has resolved, the placeholder is finalized in place with content =      *)
(* args.content, type = "note" and no folderId.                            *)
(***************************************************************************)
C7_PlainNoteFinalizedInPlace ==
  \A c \in Clients :
    (NoteDecision(c) /\ args[c].action = "none") =>
       /\ \A i \in DOMAIN trace[c] : trace[c][i].op = "finalizeNote"
       /\ Exists(c)
       /\ pc[c] = "resolved" =>
            /\ trace[c] = <<Call("finalizeNote", TRUE, NoId)>>
            /\ Doc(voiceNotes, noteId[c]) =
                 [_id |-> noteId[c], content |-> args[c].content,
                  type |-> "note", folderId |-> NoId]

C7_Witness ==
  /\ pc[1] = "resolved"
  /\ NoteDecision(1)
  /\ args[1].action = "none"
  /\ args[1].content = "buy milk"
  /\ folders # {}

(***************************************************************************)
(* C8: when the classification response has a non-success status, or has   *)
(* no tool call, or its first tool call is not named "decide",             *)
(* processTranscript rejects; the step that rejects changes no table, the  *)
(* placeholder still holds the sentinel content and the run has issued no  *)
(* store call.                                                             *)
(***************************************************************************)
NoStructuredResult(c) ==
  \/ fcRes[c].status = "error"
  \/ fcRes[c].status = "ok" /\ (fcRes[c].toolCalls = 0 \/ fcRes[c].name # "decide")

C8_ClassificationFailureLeavesStore ==
  /\ [](\A c \in Clients :
          NoStructuredResult(c) =>
            /\ pc[c] = "rejected"
            /\ err[c] \in {"OpenAI API error", "No valid function call in response"}
            /\ trace[c] = <<>>
            /\ Pending(c))
  /\ [][\A c \in Clients :
          (fcRes[c] = NoResponse /\ NoStructuredResult(c)') =>
             UNCHANGED <<voiceNotes, todos, folders>>]_vars

C8_Witness ==
  /\ pc[1] = "rejected"
  /\ fcRes[1].status = "ok"
  /\ fcRes[1].name = "lookup"
  /\ recordings = 2
  /\ todos # {}

(***************************************************************************)
(* C9: schema conformance.  A decision outside the schema (noteType not in *)
(* {note, todo}, action not in {create_folder, categorize_note, none}, or  *)
(* no content) is never routed: its run never resolves, and when it has    *)
(* rejected it has applied no mutation to the store.  The empty string     *)
(* counts as content here, since an empty note is an accepted result of    *)
(* an empty transcript; the statement checked is therefore implied by the  *)
(* one that also refuses empty content.                                    *)
(***************************************************************************)
Conforms(a) ==
  /\ a.noteType \in {"note", "todo"}
  /\ a.action \in {"create_folder", "categorize_note", "none"}
  /\ IsString(a.content)

C9_SchemaConformance ==
  \A c \in Clients :
    (args[c] # NoArgs /\ ~Conforms(args[c])) =>
       /\ pc[c] # "resolved"
       /\ pc[c] = "rejected" => \A i \in DOMAIN trace[c] : ~trace[c][i].ok

(***************************************************************************)
(* C10: failures.  The placeholder of a run is always either pending       *)
(* (sentinel content) or completely finalized, and is finalized at most    *)
(* once; a store call that throws ends the run, which rejects with the     *)
(* error; a rejected run leaves its placeholder pending; without an API    *)
(* key the run gets no further than its entry; and the rejection reaches   *)
(* handleTranscription, which shows its message.                           *)
(***************************************************************************)
C10_FailureLeavesPlaceholderRecoverable ==
  \A c \in Clients :
    /\ Cardinality(Done(c, "finalizeNote")) <= 1
    /\ Exists(c) =>
         \/ Pending(c)
         \/ /\ Done(c, "finalizeNote") # {}
            /\ Doc(voiceNotes, noteId[c]) =
                 Patch(Placeholder(noteId[c]), args[c].content, "note", folderId[c])
    /\ Failed(c) # {} =>
         /\ Failed(c) = {Len(trace[c])}
         /\ pc[c] = "rejected"
    /\ pc[c] = "rejected" =>
         /\ IsString(err[c])
         /\ Pending(c)
         /\ ~isProcessing[c] => alert[c] = err[c]
    /\ apiKey = Undefined =>
         pc[c] \in {"idle", "addPlaceholder", "processTranscript", "rejected"}

\* the finalize of a folder note threw after its folder was created, and the
\* caller has been told
C10_Witness ==
  /\ pc[1] = "rejected"
  /\ Done(1, "folders.create") # {}
  /\ Issued(1, "finalizeNote") # {}
  /\ Pending(1)
  /\ alert[1] = "StoreError"

(***************************************************************************)
(* C11 (as stated): a successful run adds exactly one Todo (placeholder    *)
(* removed, no note finalized) or exactly one finalized note (no Todo),    *)
(* and afterwards no record of the run holds the content "Processing...".  *)
(* The text of the note is whatever the decision carries, so a decision    *)
(* whose content is "Processing..." leaves such a record.                  *)
(***************************************************************************)
TodoCommitted(c) ==
  /\ Cardinality(Done(c, "todos.create")) = 1
  /\ Cardinality(Done(c, "deleteVoiceNote")) = 1
  /\ Done(c, "finalizeNote") = {}
  /\ Returned(c, "todos.create") \subseteq Ids(todos)
  /\ ~Exists(c)

NoteCommitted(c) ==
  /\ Done(c, "todos.create") = {}
  /\ Done(c, "deleteVoiceNote") = {}
  /\ Cardinality(Done(c, "finalizeNote")) = 1
  /\ Exists(c)

HoldsSentinel(c) ==
  Exists(c) /\ Doc(voiceNotes, noteId[c]).content = Sentinel

C11_NoSentinelRecordRemains ==
  \A c \in Clients :
    pc[c] = "resolved" =>
      /\ TodoCommitted(c) \/ NoteCommitted(c)
      /\ ~HoldsSentinel(c)

(***************************************************************************)
(* C11 (amended): a successful run adds exactly one Todo (placeholder      *)
(* removed, no note finalized) or exactly one finalized note (no Todo).    *)
(* The record of a finalized run carries the decision's content, so it     *)
(* holds "Processing..." only when that is the content the decision gave;  *)
(* no placeholder is left behind unfinalized.                              *)
(***************************************************************************)
C11_CommitsOnceNoOrphan ==
  \A c \in Clients :
    pc[c] = "resolved" =>
      /\ TodoCommitted(c) \/ NoteCommitted(c)
      /\ NoteCommitted(c) =>
            Doc(voiceNotes, noteId[c]).content = args[c].content
      /\ HoldsSentinel(c) => args[c].content = Sentinel

\* a run resolved after finalizing its note with the content "Processing..."
C11_Witness ==
  \E c \in Clients :
    /\ pc[c] = "resolved"
    /\ NoteCommitted(c)
    /\ HoldsSentinel(c)
    /\ args[c].content = Sentinel

(***************************************************************************)
(* C12: from its creation until its terminal mutation a placeholder is     *)
(* mutated or deleted by nothing but the routing step of its own run, and  *)
(* it receives exactly one terminal mutation: as long as the run has       *)
(* applied none the placeholder is there and pending, and the run applies  *)
(* at most one.  The notes screen shows the pending placeholder as a card  *)
(* whose trash button deletes it.                                          *)
(***************************************************************************)
Terminal(c) == Done(c, "finalizeNote") \cup Done(c, "deleteVoiceNote")

C12_RoutingIsSoleWriter ==
  \A c \in Clients :
    noteId[c] # NoId =>
      /\ Cardinality(Terminal(c)) <= 1
      /\ Terminal(c) = {} => Pending(c)

(***************************************************************************)
(* C13: todos are never foldered.  Whatever routing action and folder name *)
(* a todo decision carries, the run issues no folders.list, no             *)
(* folders.create and no finalizeNote, no step of it changes the folders   *)
(* collection, and the Todo it creates has no field but _id, text and      *)
(* done.                                                                   *)
(***************************************************************************)
TodoDecision(c) == args[c].noteType = "todo"

C13_TodosNeverFoldered ==
  /\ [](\A c \in Clients :
          TodoDecision(c) =>
            /\ Issued(c, "folders.list") = {}
            /\ Issued(c, "folders.create") = {}
            /\ Issued(c, "finalizeNote") = {}
            /\ pc[c] \notin {"folders.list", "folders.create", "finalizeNote"}
            /\ folderId[c] = NoId
            /\ \A t \in Returned(c, "todos.create") :
                 t \in Ids(todos) =>
                   DOMAIN Doc(todos, t) = {"_id", "text", "done"})
  /\ [][\A c \in Clients :
          TodoDecision(c) /\ args'[c] = args[c] => folders' = folders]_vars

\* a todo decision that asked for a new folder "Groceries" went through:
\* the Todo is there, the placeholder is gone, there is no folder
C13_Witness ==
  \E c \in Clients :
    /\ pc[c] = "resolved"
    /\ TodoDecision(c)
    /\ args[c].action = "create_folder"
    /\ args[c].folder = "Groceries"
    /\ TodoCommitted(c)
    /\ folders = {}

(***************************************************************************)
(* C14: every invocation of processTranscript eventually resolves, to      *)
(* success or to a failure, provided every external call returns a result  *)
(* or an error; and it never resolves to success before its terminal       *)
(* mutation (finalize or delete) has been applied to the placeholder.      *)
(***************************************************************************)
InFlight(c) ==
  pc[c] \in {"processTranscript", "transcription", "classification",
             "todos.create", "deleteVoiceNote", "folders.list",
             "folders.create", "finalizeNote"}

Settled(c) == pc[c] \in {"resolved", "rejected"}

C14_EventuallyResolves ==
  /\ \A c \in Clients : InFlight(c) ~> Settled(c)
  /\ [](\A c \in Clients :
          /\ pc[c] = "resolved" => Terminal(c) # {}
          /\ InFlight(c) => Terminal(c) = {})

\* a run went through all its calls and resolved with its note finalized
\* under a folder it had to create
C14_Witness ==
  \E c \in Clients :
    /\ pc[c] = "resolved"
    /\ Done(c, "folders.list") # {}
    /\ Done(c, "folders.create") # {}
    /\ Done(c, "finalizeNote") # {}

(***************************************************************************)
(* C15: a classification response with zero tool calls or with more than   *)
(* one is rejected as a classification error with no store mutation; a     *)
(* response with several tool calls is never routed by its first one.      *)
(* The code reads tool_calls?.[0] and never looks at the length.  The      *)
(* formula asks it of the responses whose first call is unusable (the run  *)
(* must have been rejected on the spot) and of the response that carries a *)
(* plain todo decision as its first call (the run must apply no store      *)
(* mutation and must not resolve).                                         *)
(***************************************************************************)
NotOneToolCall(c) == fcRes[c].status = "ok" /\ fcRes[c].toolCalls # 1

C15_ExactlyOneToolCall ==
  \A c \in Clients :
    NotOneToolCall(c) =>
      /\ args[c] = NoArgs =>
            pc[c] = "rejected" /\ trace[c] = <<>> /\ Pending(c)
      /\ args[c] = SomeTodo =>
            /\ pc[c] # "resolved"
            /\ Done(c, "todos.create") = {}
            /\ Pending(c)

(***************************************************************************)
(* C16: a note decision whose routing action is create_folder or           *)
(* categorize_note and whose folder name is missing or empty never reaches *)
(* the store: no folder with an empty or undefined name exists, the run    *)
(* creates no folder and finalizes nothing, it does not resolve and its    *)
(* placeholder stays pending.  folders.create accepts any string, the      *)
(* empty one included.  The formula asks it of the decisions that follow   *)
(* the schema in everything else.                                          *)
(***************************************************************************)
NoFolderName(c) == FolderDecision(c) /\ args[c].folder \in {"", Undefined}

C16_EmptyFolderNameRejected ==
  \A c \in Clients :
    Conforms(args[c]) =>
      /\ \A f \in folders :
           f._id \in Returned(c, "folders.create") =>
             f.name \notin {"", Undefined}
      /\ NoFolderName(c) =>
           /\ Done(c, "folders.create") = {}
           /\ Done(c, "finalizeNote") = {}
           /\ pc[c] # "resolved"
           /\ Pending(c)

(***************************************************************************)
(* C17: on the folder branches the folder is resolved (listed and, if      *)
(* needed, created) before the placeholder is finalized.  Whenever a voice *)
(* note carries a folderId that folder exists; every folders call of a run *)
(* comes before its finalizeNote; and a run that failed before finalizing  *)
(* leaves its placeholder pending, with its sentinel content, and has      *)
(* created at most one folder, which no note refers to.                    *)
(***************************************************************************)
Before(c, op1, op2) ==
  \A i \in Issued(c, op1), j \in Issued(c, op2) : i < j

C17_FolderResolvedBeforeFinalize ==
  /\ \A n \in voiceNotes :
       n.folderId # NoId => n.folderId \in Ids(folders)
  /\ \A c \in Clients :
       /\ Before(c, "folders.list", "finalizeNote")
       /\ Before(c, "folders.create", "finalizeNote")
       /\ Cardinality(Done(c, "folders.create")) <= 1
       /\ FolderDecision(c) /\ noteId[c] # NoId /\ Done(c, "finalizeNote") = {} =>
            /\ Pending(c)
            /\ Doc(voiceNotes, noteId[c]).content = Sentinel
            /\ \A n \in voiceNotes :
                 n.folderId \notin Returned(c, "folders.create")

\* finalizeNote failed after the run had created its folder: the
\* placeholder is pending and the folder is unused
C17_Witness ==
  \E c \in Clients :
    /\ pc[c] = "rejected"
    /\ FolderDecision(c)
    /\ Done(c, "folders.create") # {}
    /\ Issued(c, "finalizeNote") # {}
    /\ Done(c, "finalizeNote") = {}
    /\ Pending(c)

(***************************************************************************)
(* C18: two overlapping runs that resolve the same not yet existing name   *)
(* can both pass the existence check before either creates the folder, so  *)
(* two folders of the same name (up to case) are reachable; the dedup of   *)
(* categorize_note holds only between runs that do not overlap.  With      *)
(* categorize_note decisions only: whenever a run created a folder whose   *)
(* name an older folder already carries, that older folder was not yet     *)
(* there when the run read the list (the list it saw was shorter), and a   *)
(* run whose list showed a folder of the requested name creates none.      *)
(***************************************************************************)
\* folders are never deleted and ids are handed out in order, so a list of
\* n folders is the list of the folders 1..n
Listed(c) ==
  {f \in folders : \E i \in Done(c, "folders.list") : f._id <= trace[c][i].ret}

C18_DuplicatesOnlyByRace ==
  \A c \in Clients :
    /\ \A f, g \in folders :
         /\ f._id < g._id
         /\ SameNameIgnoringCase(f.name, g.name)
         /\ g._id \in Returned(c, "folders.create")
         => f \notin Listed(c)
    /\ (\E f \in Listed(c) : SameNameIgnoringCase(f.name, args[c].folder))
         => Issued(c, "folders.create") = {}

\* two runs were in flight together, both listed no folder of the name and
\* both created one
C18_Witness ==
  \E c, d \in Clients, f, g \in folders :
    /\ c # d
    /\ f._id < g._id
    /\ SameNameIgnoringCase(f.name, g.name)
    /\ f._id \in Returned(c, "folders.create")
    /\ g._id \in Returned(d, "folders.create")
    /\ Listed(c) = {}
    /\ Listed(d) = {}

(***************************************************************************)
(* C19: concurrent runs have distinct placeholder ids and share nothing    *)
(* mutable but the folders.  Under every interleaving a placeholder is     *)
(* changed or removed only by a terminal mutation of its own run; until    *)
(* then it is pending; once finalized it carries its own decision's        *)
(* content, type "note" and the folder its run resolved; on the todo       *)
(* branch it is gone and the Todo carries its own decision's content.      *)
(***************************************************************************)
OwnRecord(c) == {n \in voiceNotes : n._id = noteId[c]}

C19_RunsShareOnlyFolders ==
  /\ [](\A c \in Clients :
          noteId[c] # NoId =>
            /\ \A d \in Clients \ {c} : noteId[d] # noteId[c]
            /\ Terminal(c) = {} => Pending(c)
            /\ Done(c, "finalizeNote") # {} =>
                 OwnRecord(c) =
                   {[_id |-> noteId[c], content |-> args[c].content,
                     type |-> "note", folderId |-> folderId[c]]}
            /\ Done(c, "deleteVoiceNote") # {} => OwnRecord(c) = {}
            /\ \A t \in todos :
                 t._id \in Returned(c, "todos.create") =>
                   t.text = args[c].content /\ t.done = FALSE)
  /\ [][\A c \in Clients :
          noteId[c] # NoId /\ noteId'[c] = noteId[c] =>
            \/ OwnRecord(c)' = OwnRecord(c)
            \/ /\ trace'[c] # trace[c]
               /\ trace'[c][Len(trace'[c])].op \in {"finalizeNote", "deleteVoiceNote"}]_vars

\* two runs in flight together, one finalized its note under a folder, the
\* other turned into a Todo, each with its own decision's content
C19_Witness ==
  \E c, d \in Clients :
    /\ c # d
    /\ isProcessing[c] /\ isProcessing[d]
    /\ pc[c] = "resolved" /\ pc[d] = "resolved"
    /\ NoteCommitted(c) /\ folderId[c] # NoId
    /\ TodoCommitted(d)
    /\ args[c].content # args[d].content

(***************************************************************************)
(* C20: within one run the stages come strictly in the order               *)
(* transcription, classification, folder resolution (folder branches       *)
(* only), routing.  The classification call is issued, and its response    *)
(* seen, only with a transcript at hand; and no store read or mutation is  *)
(* issued before classification has returned a parsed decide call: the     *)
(* run is then past classification, folders.list comes before              *)
(* folders.create, both before finalizeNote, todos.create before           *)
(* deleteVoiceNote.                                                        *)
(***************************************************************************)
StoreSteps ==
  {"todos.create", "deleteVoiceNote", "folders.list", "folders.create",
   "finalizeNote"}

Classified(c) ==
  /\ fcRes[c].status = "ok"
  /\ fcRes[c].name = "decide"
  /\ args[c] # NoArgs

C20_StagesInOrder ==
  \A c \in Clients :
    /\ pc[c] = "classification" \/ fcRes[c] # NoResponse => IsString(text[c])
    /\ pc[c] \in {"processTranscript", "transcription", "classification"} =>
         trace[c] = <<>> /\ args[c] = NoArgs
    /\ pc[c] \in StoreSteps \/ trace[c] # <<>> =>
         IsString(text[c]) /\ Classified(c)
    /\ \A i \in DOMAIN trace[c] : trace[c][i].op \in StoreSteps
    /\ Before(c, "folders.list", "folders.create")
    /\ \A op \in {"folders.list", "folders.create"} :
         Before(c, op, "finalizeNote")
    /\ Before(c, "todos.create", "deleteVoiceNote")

\* a categorize_note run went through every stage: transcript, decision,
\* list, create, finalize, in this order
C20_Witness ==
  \E c \in Clients :
    /\ text[c] = "put this in Groceries"
    /\ Classified(c)
    /\ Len(trace[c]) = 3
    /\ trace[c][1].op = "folders.list" /\ trace[c][1].ok
    /\ trace[c][2].op = "folders.create" /\ trace[c][2].ok
    /\ trace[c][3].op = "finalizeNote" /\ trace[c][3].ok

(***************************************************************************)
(* C21: no step is retried.  In one run the transcription call, the        *)
(* classification call and each store call are issued at most once: the    *)
(* run only moves forward through its steps, every step it takes moves it  *)
(* on, no store call appears twice in its call log; and the first failure  *)
(* ends the run: a failed call is the last of the log and the run is       *)
(* rejected.                                                               *)
(***************************************************************************)
Stage(p) ==
  CASE p = "processTranscript" -> 1
    [] p = "transcription" -> 2
    [] p = "classification" -> 3
    [] p \in {"todos.create", "folders.list"} -> 4
    [] p \in {"deleteVoiceNote", "folders.create"} -> 5
    [] p = "finalizeNote" -> 6
    [] p \in {"resolved", "rejected"} -> 7
    [] OTHER -> 0

C21_NoStepRetried ==
  /\ [](\A c \in Clients :
          /\ \A op \in StoreSteps : Cardinality(Issued(c, op)) <= 1
          /\ Failed(c) # {} =>
               pc[c] = "rejected" /\ Failed(c) = {Len(trace[c])}
          /\ err[c] # Undefined => pc[c] = "rejected")
  /\ [][\A c \in Clients :
          InFlight(c) =>
            /\ pc'[c] # pc[c] => Stage(pc[c]) < Stage(pc'[c])
            /\ <<text[c], fcRes[c], args[c], trace[c], err[c]>>
                  # <<text'[c], fcRes'[c], args'[c], trace'[c], err'[c]>>
                => pc'[c] # pc[c]]_vars

\* folders.create failed after folders.list had succeeded: the run is
\* rejected with these two calls in its log and nothing after them
C21_Witness ==
  \E c \in Clients :
    /\ pc[c] = "rejected"
    /\ Len(trace[c]) = 2
    /\ trace[c][1] = Call("folders.list", TRUE, 0)
    /\ trace[c][2] = Call("folders.create", FALSE, NoId)
    /\ err[c] = "StoreError"

(***************************************************************************)
(* C22: without an API key, or when the transcription request returns a    *)
(* non-success status, processTranscript fails with a transcription        *)
(* failure before the classification call is issued and before any store   *)
(* read or mutation, and the placeholder stays pending and unmodified.     *)
(* A run that got past the key check has a key; a run that got past        *)
(* transcription has a transcript or was rejected there.                   *)
(***************************************************************************)
TranscriptionFailure(c) ==
  /\ pc[c] = "rejected"
  /\ err[c] \in {"Missing OpenAI API key", "Whisper API error"}

C22_TranscriptionFailureStopsRun ==
  \A c \in Clients :
    /\ Stage(pc[c]) >= 2 /\ apiKey = Undefined =>
         TranscriptionFailure(c) /\ err[c] = "Missing OpenAI API key"
    /\ Stage(pc[c]) >= 3 /\ ~IsString(text[c]) => TranscriptionFailure(c)
    /\ err[c] = "Whisper API error" => apiKey # Undefined
    /\ TranscriptionFailure(c) =>
         /\ ~IsString(text[c])
         /\ fcRes[c] = NoResponse
         /\ args[c] = NoArgs
         /\ trace[c] = <<>>
         /\ Pending(c)

\* the transcription request came back with an error status
C22_Witness ==
  \E c \in Clients :
    /\ pc[c] = "rejected"
    /\ err[c] = "Whisper API error"
    /\ trace[c] = <<>>
    /\ Pending(c)

(***************************************************************************)
(* C23: an empty transcript is not an error.  When transcription returned  *)
(* the empty string the run proceeds to classification, the decision it    *)
(* parses is noteType = note, action = none, content = "", and a run that  *)
(* resolves has finalized its placeholder as a note with empty content and *)
(* no folder.  The code sends the empty text to the model like any other   *)
(* and routes whatever decision comes back.                                *)
(***************************************************************************)
EmptyTranscript(c) == text[c] = ""

\* a decision that follows the schema and names its folder where it needs one
WellFormed(a) ==
  /\ Conforms(a)
  /\ a.action \in {"create_folder", "categorize_note"} =>
       a.folder \notin {"", Undefined}

C23_EmptyTranscriptYieldsEmptyNote ==
  \A c \in Clients :
    EmptyTranscript(c) =>
      /\ err[c] \notin {"Missing OpenAI API key", "Whisper API error"}
      /\ WellFormed(args[c]) =>
           /\ args[c].noteType = "note"
           /\ args[c].action = "none"
           /\ args[c].content = ""
      /\ pc[c] = "resolved" =>
           voiceNotes \cap {n \in voiceNotes : n._id = noteId[c]} =
             {[_id |-> noteId[c], content |-> "", type |-> "note",
               folderId |-> NoId]}

(***************************************************************************)
(* C24: the review item the chat screen selects after a run that routed to *)
(* a todo is the Todo that run created, also when other todos are added    *)
(* while the run is in flight.  The effect takes the newest todo that is   *)
(* not in the baseline, whoever created it.  The formula asks it of the    *)
(* runs that no other screen's recording came after: whatever another      *)
(* screen added, it added while this run was in flight.                    *)
(***************************************************************************)
Reviewed(c) == pc[c] = "resolved" /\ ~isProcessing[c] /\ pendingNoteId[c] = NoId

\* no other screen took its baseline after this run's Todo was created
OthersStartedBefore(c) ==
  \A d \in Clients \ {c} :
    baselineTodoIds[d] \cap Returned(c, "todos.create") = {}

C24_ReviewShowsOwnTodo ==
  \A c \in Clients :
    Reviewed(c) /\ TodoCommitted(c) /\ OthersStartedBefore(c) =>
      /\ reviewItem[c].type = "todo"
      /\ reviewItem[c].id \in Returned(c, "todos.create")

(***************************************************************************)
(* C25: one chat screen never has two runs in flight.  isProcessing is     *)
(* true from before the placeholder is created until handleTranscription   *)
(* exits; a recording is handed to handleTranscription only while          *)
(* isProcessing is false (the record button is disabled otherwise) and no  *)
(* run of the screen is under way; and isProcessing is reset on every      *)
(* exit, so whenever processTranscript has resolved or rejected the button *)
(* is eventually enabled again.                                            *)
(***************************************************************************)
Handling(c) == pc[c] = "addPlaceholder" \/ InFlight(c) \/ Settled(c)

FailedRun(c) == pc[c] = "rejected" /\ noteId[c] # NoId

DeletedInFlight(c) == InFlight(c) /\ noteId[c] # NoId /\ ~Exists(c)

C27_DeletedPlaceholderNotRecreated ==
  /\ [](\A c \in Clients :
          /\ DeletedInFlight(c) => Terminal(c) = {}
          /\ err[c] = "Update on nonexistent document" =>
               /\ pc[c] = "rejected"
               /\ ~TodoDecision(c)
               /\ ~Exists(c)
               /\ Done(c, "finalizeNote") = {}
          /\ err[c] = "Delete on nonexistent document" =>
               /\ pc[c] = "rejected"
               /\ TodoDecision(c)
               /\ ~Exists(c)
               /\ Cardinality(Done(c, "todos.create")) = 1
               /\ Returned(c, "todos.create") \subseteq Ids(todos))
  /\ [][/\ \A n \in voiceNotes' :
            n._id \in Ids(voiceNotes) \/ n._id = nextId.voiceNotes
        /\ \A c \in Clients :
            DeletedInFlight(c) =>
              /\ voiceNotes' \subseteq voiceNotes
              /\ pc'[c] # "resolved"
              /\ pc[c] = "finalizeNote" /\ pc'[c] # pc[c] =>
                   err'[c] = IF IsString(args[c].content)
                             THEN "Update on nonexistent document"
                             ELSE "ArgumentValidationError"
              /\ pc[c] = "deleteVoiceNote" /\ pc'[c] # pc[c] =>
                   err'[c] = "Delete on nonexistent document"]_vars

\* the placeholder was deleted from the notes screen during a todo run:
\* the Todo is there and the run was rejected by the failing delete
C27_Witness ==
  \E c \in Clients :
    /\ pc[c] = "rejected"
    /\ err[c] = "Delete on nonexistent document"
    /\ ~Exists(c)
    /\ \E t \in todos :
         t._id \in Returned(c, "todos.create") /\ t.text = args[c].content

(***************************************************************************)
(* C28: when several folders match the requested name case-insensitively   *)
(* (left by overlapping lookups or by create_folder), a categorize_note    *)
(* run picks the first match of folders.list, which is ordered newest      *)
(* first: the note goes to the most recently created matching folder the   *)
(* run listed, and the run creates no folder.                              *)
(***************************************************************************)
CategorizeDecision(c) ==
  NoteDecision(c) /\ args[c].action = "categorize_note"

ListedMatches(c) ==
  {f \in Listed(c) : SameNameIgnoringCase(f.name, args[c].folder)}

MostRecent(fs) == CHOOSE f \in fs : \A g \in fs : g._id <= f._id

C28_NewestMatchingFolderPicked ==
  \A c \in Clients :
    (CategorizeDecision(c) /\ Cardinality(ListedMatches(c)) >= 2) =>
      /\ folderId[c] = MostRecent(ListedMatches(c))._id
      /\ Issued(c, "folders.create") = {}
      /\ pc[c] \in {"finalizeNote", "resolved", "rejected"}
      /\ Done(c, "finalizeNote") # {} =>
           \A n \in OwnRecord(c) :
             n.folderId = MostRecent(ListedMatches(c))._id

\* two folders of the name were there, the run filed its note in the younger
C28_Witness ==
  \E c \in Clients :
    /\ CategorizeDecision(c)
    /\ Cardinality(ListedMatches(c)) >= 2
    /\ pc[c] = "resolved"
    /\ \E n \in OwnRecord(c), f \in ListedMatches(c) :
         n.folderId # NoId /\ f._id < n.folderId

(***************************************************************************)
(* C29: toggleTodo is an involution on an existing todo: a call negates    *)
(* the done flag of that todo and changes no other field and no other      *)
(* record, so two calls in a row restore the todo.  On an id with no todo  *)
(* it fails with "Todo not found" and leaves the todos collection as it    *)
(* was.                                                                    *)
(***************************************************************************)
\* the todos after a successful toggleTodo of id
AfterToggle(table, id) ==
  {IF t._id = id THEN [_id |-> t._id, text |-> t.text, done |-> ~t.done] ELSE t :
     t \in table}

ToggleCalled == todoCall'.n # todoCall.n /\ todoCall'.op = "toggleTodo"

C29_ToggleTodoInvolution ==
  [][ToggleCalled =>
       /\ UNCHANGED <<voiceNotes, folders, nextId>>
       /\ IF todoCall'.id \in Ids(todos)
          THEN /\ todoCall'.err = Undefined
               /\ todos' = AfterToggle(todos, todoCall'.id)
               /\ todos' # todos
               /\ AfterToggle(todos', todoCall'.id) = todos
          ELSE /\ todoCall'.err = "Todo not found"
               /\ todos' = todos]_vars

\* a todo was toggled twice in a row and is not done, as before
C29_Witness ==
  /\ todoCall.n = 2
  /\ todoCall.op = "toggleTodo"
  /\ todoCall.err = Undefined
  /\ \E t \in todos : t._id = todoCall.id /\ ~t.done

====
